---- MODULE Spec2Model ----
(***************************************************************************)
(* Parallel image-classification workflow of Scones Unlimited              *)
(* (src/parallel_workflow_lambda.py): BatchSerializeImageData,             *)
(* ParallelImageClassification and BatchFilterLowConfidence, chained by    *)
(* PARALLEL_STEP_FUNCTION_DEFINITION.  The two batch stages run their      *)
(* per-item operation on a ThreadPoolExecutor and collect the results with *)
(* as_completed.  Beside them: the single-image filter of src/lambda.py,   *)
(* execute_step_function of src/dummy_data_generator.py and the            *)
(* StepFunctionErrorHandler of src/sns_error_notifications.py.             *)
(*                                                                         *)
(* Numbers: a confidence c is represented by the integer 100 * c, so that  *)
(* 0.93 is 93.  "x > total * 0.5" is computed as "2 * x > total", and the  *)
(* quotient success_rate is kept as the pair << numerator, denominator >>. *)
(***************************************************************************)
EXTENDS Integers, Sequences, FiniteSets, Bags, TLC

\* ------------------------------------------------------------------ bounds
\* longest batch of arbitrary keys
MaxItems == 3
\* longest batch made of copies of one key (exceeds both pool limits)
MaxUniform == 11

\* ------------------------------------------------------- program constants
SERIALIZE_WORKERS == 10
CLASSIFY_WORKERS == 5
THRESHOLD == 93

\* the longest a call to the orchestrator takes, in seconds
MaxCallSeconds == 1

BUCKET == "scones-bucket"

\* ------------------------------------------------------------- environment
\* An S3 key is its sequence of '/'-separated segments.
KeyAX == <<"test", "a", "x.png">>
KeyBX == <<"test", "b", "x.png">>
KeyAY == <<"test", "a", "y.png">>
KeyAZ == <<"test", "a", "z.png">>
KeyCW == <<"test", "c", "w.png">>
KeyBV == <<"test", "b", "v.png">>

Keys == {KeyAX, KeyBX, KeyAY, KeyAZ, KeyCW}

\* The objects of the bucket: key -> bytes.  KeyCW is not stored.
StoredKeys == {KeyAX, KeyBX, KeyAY, KeyAZ, KeyBV}

ObjectBytes(key) ==
    CASE key = KeyAX -> <<137, 80, 78>>
      [] key = KeyBX -> <<137, 80>>
      [] key = KeyAY -> <<71>>
      [] key = KeyAZ -> <<0, 255, 16, 32>>
      [] key = KeyBV -> <<66, 77>>

\* The hosted model: bytes -> response text, or an endpoint error.
InvokeEndpoint(bytes) ==
    CASE bytes = <<137, 80, 78>> -> [ok |-> TRUE, text |-> "[0.97, 0.03]"]
      [] bytes = <<137, 80>> -> [ok |-> TRUE, text |-> "[0.80, 0.20]"]
      [] bytes = <<0, 255, 16, 32>> -> [ok |-> TRUE, text |-> "Internal Server Error"]
      [] bytes = <<66, 77>> -> [ok |-> TRUE, text |-> "[0.93, 0.07]"]
      [] OTHER -> [ok |-> FALSE, error |-> "ModelError: could not decode image"]

\* ------------------------------------------------------------------ base64
PAD == 64

Enc3(b1, b2, b3) ==
    LET n == b1 * 65536 + b2 * 256 + b3
    IN  << n \div 262144, (n \div 4096) % 64, (n \div 64) % 64, n % 64 >>

RECURSIVE b64encode(_)
b64encode(bytes) ==
    IF Len(bytes) = 0 THEN << >>
    ELSE IF Len(bytes) = 1 THEN
        LET e == Enc3(bytes[1], 0, 0) IN << e[1], e[2], PAD, PAD >>
    ELSE IF Len(bytes) = 2 THEN
        LET e == Enc3(bytes[1], bytes[2], 0) IN << e[1], e[2], e[3], PAD >>
    ELSE Enc3(bytes[1], bytes[2], bytes[3]) \o b64encode(SubSeq(bytes, 4, Len(bytes)))

Dec4(c1, c2, c3, c4) ==
    LET v(c) == IF c = PAD THEN 0 ELSE c
        n == v(c1) * 262144 + v(c2) * 4096 + v(c3) * 64 + v(c4)
        all == << n \div 65536, (n \div 256) % 256, n % 256 >>
    IN  IF c3 = PAD THEN SubSeq(all, 1, 1)
        ELSE IF c4 = PAD THEN SubSeq(all, 1, 2)
        ELSE all

RECURSIVE b64decode(_)
b64decode(text) ==
    IF Len(text) = 0 THEN [ok |-> TRUE, bytes |-> << >>]
    ELSE IF Len(text) < 4 THEN [ok |-> FALSE, error |-> "Incorrect padding"]
    ELSE LET rest == b64decode(SubSeq(text, 5, Len(text)))
         IN  IF rest.ok
             THEN [ok |-> TRUE,
                   bytes |-> Dec4(text[1], text[2], text[3], text[4]) \o rest.bytes]
             ELSE rest

\* ------------------------------------------------------------------- state
VARIABLES
    entry,        \* which handler the run was started at
    pc,           \* position of the run
    event,        \* the event handed to the handler at pc
    tmp,          \* the files of /tmp: file name -> bytes
    poolStage,    \* the stage whose executor the pool variables describe
    items,        \* the items handed to executor.submit, in order
    max_workers,  \* max_workers of the executor
    queue,        \* work queue of the executor (submitted, not started)
    inflight,     \* bag of operations being run by a worker thread
    finished,     \* bag of the outcomes of done futures not yet yielded
    results,      \* serialized_images / classification_results
    dispatched,   \* bag of the items a worker has taken from the queue
    serOut,       \* outcome of BatchSerializeImageData
    clsOut,       \* outcome of ParallelImageClassification
    fltOut,       \* outcome of BatchFilterLowConfidence
    singleOut,    \* outcome of FilterLowConfidenceInferences
    exe,          \* execute_step_function: clock, orchestrator, result
    snsOut,       \* outcome of StepFunctionErrorHandler
    published,    \* the messages sns.publish has accepted
    multiOut,     \* outcome of multi_class_filter_lambda_handler
    load,         \* run_load_test: its executor, futures and results
    analysisOut   \* what analyze_results has counted

\* the state of the programs beside the parallel workflow
moreVars == << multiOut, load, analysisOut >>
otherVars == << singleOut, exe, snsOut, published, moreVars >>

vars == << entry, pc, event, tmp, poolStage, items, max_workers, queue,
           inflight, finished, results, dispatched, serOut, clsOut, fltOut,
           otherVars >>

poolVars == << poolStage, items, max_workers, queue, inflight, finished,
               results, dispatched >>

NotRun == [kind |-> "none"]
Raised(msg) == [kind |-> "raised", error |-> msg]
Returned(body) == [kind |-> "returned", response |-> [statusCode |-> 200, body |-> body]]

Min(a, b) == IF a < b THEN a ELSE b

RECURSIVE Copies(_, _)
Copies(x, n) == IF n = 0 THEN << >> ELSE << x >> \o Copies(x, n - 1)

RECURSIVE SeqsUpTo(_, _)
SeqsUpTo(S, n) ==
    IF n = 0 THEN { << >> }
    ELSE LET shorter == SeqsUpTo(S, n - 1)
         IN  shorter \cup { Append(s, x) : s \in shorter, x \in S }

RECURSIVE SeqToBag(_)
SeqToBag(s) == IF s = << >> THEN EmptyBag ELSE SetToBag({Head(s)}) (+) SeqToBag(Tail(s))

\* ------------------------------------------------- BatchSerializeImageData
\* lines 25-32: batch mode or single image mode
RequestedKeys(ev) ==
    IF "s3_keys" \in DOMAIN ev THEN ev.s3_keys ELSE << ev.s3_key >>

\* line 38
LocalFile(s3_key) == << "tmp", s3_key[Len(s3_key)] >>

SerializeOk(s3_key, bucket, image_data) ==
    [success |-> TRUE, s3_key |-> s3_key, image_data |-> image_data, s3_bucket |-> bucket]

SerializeError(s3_key, bucket, e) ==
    [success |-> FALSE, s3_key |-> s3_key, error |-> e, s3_bucket |-> bucket]

\* The outcome a future is set to: the value the operation returned, or the
\* exception that left it (future.result() raises it again).
Value(result) == [raised |-> FALSE, result |-> result]
Exception(e) == [raised |-> TRUE, error |-> e]

\* the except clause does not match the error: it leaves the operation
SerializeExceptEscapes(s3_key, bucket, e) == Exception(e)

\* lines 51-57: except Exception as e
SerializeExcept(s3_key, bucket, e) == Value(SerializeError(s3_key, bucket, e))

\* one worker per item, whatever the limit
MaxWorkersUncapped(n, limit) == n

\* the configured limit, whatever the number of items
MaxWorkersLimit(n, limit) == limit

\* min(len(...), limit)
MaxWorkers(n, limit) == Min(n, limit)

\* ThreadPoolExecutor.__init__ rejects max_workers <= 0
ExecutorRejects(workers) == workers <= 0

\* the handler goes on as soon as one future is done
FirstCompleted(res, its) == Len(res) >= 1

\* the handler goes on while one future is still running
AllButLastCompleted(res, its) == Len(res) >= Len(its) - 1

\* the as_completed loop is exhausted and the with block is left
AllCompleted(res, its) == Len(res) = Len(its)

\* the result replaces the one collected before it
CollectedOverwriting(res, r) ==
    IF res = << >> THEN << r >> ELSE [res EXCEPT ![Len(res)] = r]

\* lines 68 and 152: the list .append(result) leaves
Collected(res, r) == Append(res, r)

\* the successes kept by s3_key: a key submitted twice is kept once
SuccessfulOfByKey(res) ==
    LET ok == SelectSeq(res, LAMBDA r : r.success)
        first(i) == \A j \in 1..(i - 1) : ok[j].s3_key # ok[i].s3_key
        RECURSIVE keep(_)
        keep(i) == IF i > Len(ok) THEN << >>
                   ELSE (IF first(i) THEN << ok[i] >> ELSE << >>) \o keep(i + 1)
    IN  keep(1)

SuccessfulOf(res) == SelectSeq(res, LAMBDA r : r.success)
FailedOf(res) == SelectSeq(res, LAMBDA r : ~ r.success)

SerializeBody(keys, res) ==
    [serialized_images |-> SuccessfulOf(res),
     failed_images |-> FailedOf(res),
     total_requested |-> Len(keys),
     successful_count |-> Len(SuccessfulOf(res)),
     failed_count |-> Len(FailedOf(res))]

WriteFile(fs, name, bytes) ==
    [n \in DOMAIN fs \cup {name} |-> IF n = name THEN bytes ELSE fs[n]]

\* What follows a handler: the next state of the workflow, or the end of a
\* direct invocation.
After(next) == IF entry = "workflow" THEN next ELSE "Done"

\* lines 19-32, 59-64: the handler starts, builds the executor and submits
SerializeBegin ==
    /\ pc = "BatchSerializeImages"
    /\ LET s3_keys == RequestedKeys(event)
           workers == MaxWorkers(Len(s3_keys), SERIALIZE_WORKERS)
       IN  IF ExecutorRejects(workers)
           THEN /\ serOut' = Raised("ValueError: max_workers must be greater than 0")
                /\ pc' = After("ExecutionFailed")
                /\ UNCHANGED poolVars
           ELSE /\ poolStage' = "serialize"
                /\ items' = s3_keys
                /\ max_workers' = workers
                /\ queue' = s3_keys
                /\ inflight' = EmptyBag
                /\ finished' = EmptyBag
                /\ results' = << >>
                /\ dispatched' = EmptyBag
                /\ pc' = "SerializePool"
                /\ UNCHANGED serOut
    /\ UNCHANGED << otherVars, entry, event, tmp, clsOut, fltOut >>

\* A worker thread of the executor takes the next work item from the queue.
WorkerTake ==
    /\ pc \in {"SerializePool", "ClassifyPool"}
    /\ queue # << >>
    /\ BagCardinality(inflight) < max_workers
    /\ inflight' = inflight (+) SetToBag({[item |-> Head(queue), phase |-> "taken"]})
    /\ dispatched' = dispatched (+) SetToBag({Head(queue)})
    /\ queue' = Tail(queue)
    /\ UNCHANGED << otherVars, entry, pc, event, tmp, poolStage, items, max_workers,
                    finished, results, serOut, clsOut, fltOut >>

\* lines 38-39, 51-57: s3.download_file(bucket, s3_key, local_file)
SerializeDownload ==
    /\ pc = "SerializePool"
    /\ \E w \in BagToSet(inflight) :
        /\ w.phase = "taken"
        /\ IF w.item \in StoredKeys
           THEN /\ tmp' = WriteFile(tmp, LocalFile(w.item), ObjectBytes(w.item))
                /\ inflight' = (inflight (-) SetToBag({w}))
                                 (+) SetToBag({[w EXCEPT !.phase = "downloaded"]})
                /\ UNCHANGED finished
           ELSE /\ finished' = finished (+) SetToBag({
                       SerializeExcept(w.item, event.s3_bucket,
                                       "An error occurred (404) when calling the HeadObject operation: Not Found")})
                /\ inflight' = inflight (-) SetToBag({w})
                /\ UNCHANGED tmp
    /\ UNCHANGED << otherVars, entry, pc, event, poolStage, items, max_workers, queue,
                    results, dispatched, serOut, clsOut, fltOut >>

\* lines 42-50: open(local_file), read, b64encode, return
SerializeEncode ==
    /\ pc = "SerializePool"
    /\ \E w \in BagToSet(inflight) :
        /\ w.phase = "downloaded"
        /\ finished' = finished (+) SetToBag({
               Value(SerializeOk(w.item, event.s3_bucket, b64encode(tmp[LocalFile(w.item)])))})
        /\ inflight' = inflight (-) SetToBag({w})
    /\ UNCHANGED << otherVars, entry, pc, event, tmp, poolStage, items, max_workers, queue,
                    results, dispatched, serOut, clsOut, fltOut >>

\* lines 66-68 and 150-152: as_completed yields a done future, its result
\* is appended
Collect ==
    /\ pc \in {"SerializePool", "ClassifyPool"}
    /\ \E f \in BagToSet(finished) :
        /\ finished' = finished (-) SetToBag({f})
        /\ IF f.raised
           THEN /\ pc' = After("ExecutionFailed")
                /\ serOut' = IF pc = "SerializePool" THEN Raised(f.error) ELSE serOut
                /\ clsOut' = IF pc = "ClassifyPool" THEN Raised(f.error) ELSE clsOut
                /\ UNCHANGED results
           ELSE /\ results' = Collected(results, f.result)
                /\ UNCHANGED << pc, serOut, clsOut >>
    /\ UNCHANGED << otherVars, entry, event, tmp, poolStage, items, max_workers, queue,
                    inflight, dispatched, fltOut >>

\* lines 70-83
SerializeReturn ==
    /\ pc = "SerializePool"
    /\ AllCompleted(results, items)
    /\ serOut' = Returned(SerializeBody(items, results))
    /\ pc' = After("CheckSerializationSuccess")
    /\ UNCHANGED << otherVars, entry, event, tmp, poolVars, clsOut, fltOut >>

\* ------------------------------------------------------ the state machine
\* the choice state goes on to the classification whatever the count
ChoiceAlwaysClassifies(successful_count) == "ParallelClassification"

\* lines 314-324: NumericGreaterThan 0, and the Default
Choice(successful_count) ==
    IF successful_count > 0 THEN "ParallelClassification" ELSE "SerializationFailed"

\* CheckSerializationSuccess: $.Payload.body.successful_count > 0
CheckSerializationSuccess ==
    /\ pc = "CheckSerializationSuccess"
    /\ pc' = Choice(serOut.response.body.successful_count)
    /\ event' = IF pc' = "ParallelClassification" THEN serOut.response ELSE event
    /\ UNCHANGED << otherVars, entry, tmp, poolVars, serOut, clsOut, fltOut >>

\* --------------------------------------------- ParallelImageClassification
ClassifyOk(image_data, inferences) ==
    [success |-> TRUE, s3_key |-> image_data.s3_key, s3_bucket |-> image_data.s3_bucket,
     image_data |-> image_data.image_data, inferences |-> inferences]

\* the failure result keeps the payload it was given
ClassifyErrorKeepsImage(image_data, e) ==
    [success |-> FALSE, s3_key |-> image_data.s3_key,
     s3_bucket |-> image_data.s3_bucket, error |-> e,
     image_data |-> image_data.image_data]

\* lines 136-141
ClassifyError(image_data, e) ==
    [success |-> FALSE, s3_key |-> image_data.s3_key,
     s3_bucket |-> image_data.s3_bucket, error |-> e]

\* lines 135-141: except Exception as e
ClassifyExcept(image_data, e) == Value(ClassifyError(image_data, e))

\* lines 110-141
classify_single_image(image_data) ==
    LET decoded == b64decode(image_data.image_data)
    IN  IF ~ decoded.ok THEN ClassifyExcept(image_data, decoded.error)
        ELSE LET response == InvokeEndpoint(decoded.bytes)
             IN  IF response.ok THEN Value(ClassifyOk(image_data, response.text))
                 ELSE ClassifyExcept(image_data, response.error)

ClassifyBody(res) ==
    [classifications |-> SuccessfulOf(res),
     failed_classifications |-> FailedOf(res),
     total_processed |-> Len(res),
     successful_count |-> Len(SuccessfulOf(res)),
     failed_count |-> Len(FailedOf(res))]

\* lines 101-108, 143-148
ClassifyBegin ==
    /\ pc = "ParallelClassification"
    /\ LET serialized_images == event.body.serialized_images
           workers == MaxWorkers(Len(serialized_images), CLASSIFY_WORKERS)
       IN  IF ExecutorRejects(workers)
           THEN /\ clsOut' = Raised("ValueError: max_workers must be greater than 0")
                /\ pc' = After("ExecutionFailed")
                /\ UNCHANGED poolVars
           ELSE /\ poolStage' = "classify"
                /\ items' = serialized_images
                /\ max_workers' = workers
                /\ queue' = serialized_images
                /\ inflight' = EmptyBag
                /\ finished' = EmptyBag
                /\ results' = << >>
                /\ dispatched' = EmptyBag
                /\ pc' = "ClassifyPool"
                /\ UNCHANGED clsOut
    /\ UNCHANGED << otherVars, entry, event, tmp, serOut, fltOut >>

\* a worker runs classify_single_image on the item it took
ClassifyInvoke ==
    /\ pc = "ClassifyPool"
    /\ \E w \in BagToSet(inflight) :
        /\ finished' = finished (+) SetToBag({classify_single_image(w.item)})
        /\ inflight' = inflight (-) SetToBag({w})
    /\ UNCHANGED << otherVars, entry, pc, event, tmp, poolStage, items, max_workers, queue,
                    results, dispatched, serOut, clsOut, fltOut >>

\* lines 154-167
ClassifyReturn ==
    /\ pc = "ClassifyPool"
    /\ AllCompleted(results, items)
    /\ clsOut' = Returned(ClassifyBody(results))
    /\ pc' = After("BatchFilterConfidence")
    /\ event' = IF entry = "workflow" THEN clsOut'.response ELSE event
    /\ UNCHANGED << otherVars, entry, tmp, poolVars, serOut, fltOut >>

\* ------------------------------------------------ BatchFilterLowConfidence
\* json.loads on the texts the endpoint returns
json_loads(text) ==
    CASE text = "[0.97, 0.03]" -> [ok |-> TRUE, value |-> << 97, 3 >>]
      [] text = "[0.80, 0.20]" -> [ok |-> TRUE, value |-> << 80, 20 >>]
      [] text = "[0.93, 0.07]" -> [ok |-> TRUE, value |-> << 93, 7 >>]
      [] OTHER -> [ok |-> FALSE, error |-> "Expecting value: line 1 column 1 (char 0)"]

SeqMax(s) == CHOOSE m \in { s[i] : i \in DOMAIN s } : \A i \in DOMAIN s : s[i] <= m

class_names == << "bicycle", "motorcycle" >>

\* the comparison with > in place of >=
MeetsThresholdStrictly(max_confidence) == max_confidence > THRESHOLD

\* lines 212 and 215, and src/lambda.py line 121
MeetsThreshold(max_confidence) == max_confidence >= THRESHOLD

\* lines 196-225: the body of the loop for one classification
FilterOne(classification) ==
    LET parsed == json_loads(classification.inferences)
    IN  IF ~ parsed.ok
        THEN [bucket |-> "error",
              result |-> [s3_key |-> classification.s3_key, error |-> parsed.error,
                          raw_inferences |-> classification.inferences]]
        ELSE LET inferences == parsed.value
                 max_confidence == SeqMax(inferences)
                 predicted_class == IF inferences[1] > inferences[2] THEN 0 ELSE 1
             IN  [bucket |-> IF MeetsThreshold(max_confidence) THEN "high" ELSE "low",
                  result |-> [s3_key |-> classification.s3_key,
                              s3_bucket |-> classification.s3_bucket,
                              inferences |-> inferences,
                              max_confidence |-> max_confidence,
                              predicted_class |-> predicted_class,
                              predicted_label |-> class_names[predicted_class + 1],
                              meets_threshold |-> MeetsThreshold(max_confidence)]]

\* only the accepted results are kept
FilterBucketAcceptedOnly(classifications, bucket) ==
    LET each == [i \in DOMAIN classifications |-> FilterOne(classifications[i])]
        kept == SelectSeq(each, LAMBDA f : f.bucket = bucket /\ bucket = "high")
    IN  [i \in DOMAIN kept |-> kept[i].result]

\* the loop is left at the first classification that does not parse
FilterBucketUntilError(classifications, bucket) ==
    LET each == [i \in DOMAIN classifications |-> FilterOne(classifications[i])]
        reached(i) == \A j \in 1..(i - 1) : each[j].bucket # "error"
        RECURSIVE keep(_)
        keep(i) == IF i > Len(each) THEN << >>
                   ELSE (IF each[i].bucket = bucket /\ reached(i)
                         THEN << each[i].result >> ELSE << >>) \o keep(i + 1)
    IN  keep(1)

\* the list a bucket of the loop ends up as
FilterBucket(classifications, bucket) ==
    LET each == [i \in DOMAIN classifications |-> FilterOne(classifications[i])]
        kept == SelectSeq(each, LAMBDA f : f.bucket = bucket)
    IN  [i \in DOMAIN kept |-> kept[i].result]

\* the error-rate rule with >= in place of >
OverallStatusAtLeastHalf(high_confidence_count, total_processed, error_count) ==
    IF high_confidence_count = 0 /\ total_processed > 0 THEN "ALL_LOW_CONFIDENCE"
    ELSE IF 2 * error_count >= total_processed THEN "HIGH_ERROR_RATE"
    ELSE IF high_confidence_count > 0 THEN "SUCCESS"
    ELSE "NO_VALID_PREDICTIONS"

\* lines 233-243
OverallStatus(high_confidence_count, total_processed, error_count) ==
    IF high_confidence_count = 0 /\ total_processed > 0 THEN "ALL_LOW_CONFIDENCE"
    ELSE IF 2 * error_count > total_processed THEN "HIGH_ERROR_RATE"
    ELSE IF high_confidence_count > 0 THEN "SUCCESS"
    ELSE "NO_VALID_PREDICTIONS"

\* lines 264-270: the name the raised exception starts with
RaisedName(overall_status) ==
    CASE overall_status = "ALL_LOW_CONFIDENCE" -> "ALL_PREDICTIONS_BELOW_THRESHOLD"
      [] overall_status = "HIGH_ERROR_RATE" -> "HIGH_ERROR_RATE"
      [] overall_status = "NO_VALID_PREDICTIONS" -> "NO_VALID_PREDICTIONS"

\* only the first policy violation is raised
RaisesOnlyAllLow(overall_status) == overall_status = "ALL_LOW_CONFIDENCE"

\* lines 265-270: the statuses the handler raises for instead of returning
Raises(overall_status) ==
    overall_status \in {"ALL_LOW_CONFIDENCE", "HIGH_ERROR_RATE", "NO_VALID_PREDICTIONS"}

\* lines 184-272
FilterHandler(ev) ==
    LET classifications == ev.body.classifications
        failed_classifications ==
            IF "failed_classifications" \in DOMAIN ev.body
            THEN ev.body.failed_classifications ELSE << >>
        high_confidence_results == FilterBucket(classifications, "high")
        low_confidence_results == FilterBucket(classifications, "low")
        processing_errors == FilterBucket(classifications, "error")
        total_processed == Len(classifications)
        high_confidence_count == Len(high_confidence_results)
        low_confidence_count == Len(low_confidence_results)
        error_count == Len(processing_errors) + Len(failed_classifications)
        overall_status == OverallStatus(high_confidence_count, total_processed, error_count)
        summary == [total_processed |-> total_processed,
                    high_confidence_count |-> high_confidence_count,
                    low_confidence_count |-> low_confidence_count,
                    error_count |-> error_count,
                    success_rate |-> IF total_processed > 0
                                     THEN << high_confidence_count * 100, total_processed >>
                                     ELSE << 0, 1 >>,
                    threshold_used |-> THRESHOLD]
        body == [overall_status |-> overall_status,
                 high_confidence_results |-> high_confidence_results,
                 low_confidence_results |-> low_confidence_results,
                 processing_errors |-> processing_errors,
                 failed_classifications |-> failed_classifications,
                 summary |-> summary]
    IN  IF ~ Raises(overall_status)
        THEN [kind |-> "returned", status |-> overall_status, summary |-> summary,
              response |-> [statusCode |-> 200, body |-> body]]
        ELSE [kind |-> "raised", status |-> overall_status,
              error |-> RaisedName(overall_status), summary |-> summary]

BatchFilter ==
    /\ pc = "BatchFilterConfidence"
    /\ fltOut' = FilterHandler(event)
    /\ pc' = IF fltOut'.kind = "returned" THEN After("ExecutionSucceeded")
             ELSE After("ExecutionFailed")
    /\ UNCHANGED << otherVars, entry, event, tmp, poolVars, serOut, clsOut >>

\* -------------------------------------------------------------------------
\* src/lambda.py: the single-image classification and filter
\* json.dumps of an object and json.loads of such a document
json_dumps(obj) == [json |-> obj]
json_loads_document(text) == text.json

\* src/lambda.py lines 60-96
ImageClassification(ev) ==
    LET image == b64decode(ev.body.image_data)
    IN  IF ~ image.ok THEN Raised("binascii.Error")
        ELSE LET response == InvokeEndpoint(image.bytes)
             IN  IF ~ response.ok THEN Raised(response.error)
                 ELSE Returned(json_dumps([body |-> ev.body, inferences |-> response.text]))

\* src/lambda.py lines 113-133
FilterLowConfidenceInferences(ev) ==
    LET inferences == json_loads(json_loads_document(ev.body).inferences)
    IN  IF ~ inferences.ok THEN Raised("JSONDecodeError: " \o inferences.error)
        ELSE IF MeetsThreshold(SeqMax(inferences.value))
             THEN Returned(json_dumps(ev))
             ELSE Raised("THRESHOLD_CONFIDENCE_NOT_MET")

SingleFilter ==
    /\ pc = "FilterLowConfidenceInferences"
    /\ singleOut' = FilterLowConfidenceInferences(event)
    /\ pc' = IF singleOut'.kind = "returned" THEN "ExecutionSucceeded" ELSE "ExecutionFailed"
    /\ UNCHANGED << entry, event, tmp, poolVars, serOut, clsOut, fltOut,
                    exe, snsOut, published, moreVars >>

\* -------------------------------------------------------------------------
\* src/dummy_data_generator.py: execute_step_function.  The clock counts
\* whole seconds; a call to the orchestrator takes 0..MaxCallSeconds of them.
max_wait_time == 60

\* the statuses but ABORTED end the wait
TerminalStatusesWithoutAborted == {"SUCCEEDED", "FAILED", "TIMED_OUT"}

\* line 101
TerminalStatuses == {"SUCCEEDED", "FAILED", "TIMED_OUT", "ABORTED"}

\* what describe_execution answers once the execution has ended
Endings ==
    { [status |-> "SUCCEEDED", output |-> "{\"overall_status\": \"SUCCESS\"}"],
      [status |-> "FAILED", error |-> "Exception",
       cause |-> "ALL_PREDICTIONS_BELOW_THRESHOLD: 1 predictions below 0.93 confidence"],
      [status |-> "FAILED"],
      [status |-> "TIMED_OUT"],
      [status |-> "ABORTED"] }

Running == [status |-> "RUNNING"]

\* dict.get(key, default)
Get(d, key, default) == IF key \in DOMAIN d THEN d[key] ELSE default

\* lines 75-77
ExecutionName(execution_name) ==
    IF execution_name = "" THEN "dummy-test-20250822_101500_000" ELSE execution_name

ExecutionArn(name) == << "arn:aws:states", "execution", "scones-workflow", name >>

\* lines 101-121: the result built from a terminal status
TerminalResult(status_response, now) ==
    LET status == status_response.status
        result == [execution_name |-> exe.execution_name,
                   execution_arn |-> exe.execution_arn,
                   status |-> status,
                   duration |-> now - exe.start_time,
                   input |-> event,
                   start_time |-> exe.start_time,
                   end_time |-> now]
    IN  IF status = "SUCCEEDED"
        THEN result @@ [output |-> Get(status_response, "output", "None")]
        ELSE IF status = "FAILED"
        THEN result @@ [error |-> Get(status_response, "error", "Unknown error"),
                        cause |-> Get(status_response, "cause", "Unknown cause")]
        ELSE result

\* lines 126-133
TimeoutResult(now) ==
    [execution_name |-> exe.execution_name,
     execution_arn |-> exe.execution_arn,
     status |-> "TIMEOUT",
     duration |-> now - exe.start_time,
     input |-> event,
     error |-> "Execution timed out waiting for completion"]

\* the except clause does not match the error: it leaves the call
ErrorResultEscapes(e, now) == [status |-> "RAISED", error |-> e]

\* lines 135-142
ErrorResult(e, now) ==
    [execution_name |-> exe.execution_name,
     status |-> "ERROR",
     duration |-> now - exe.start_time,
     input |-> event,
     error |-> e]

\* lines 79-92: start_time is read, start_execution is called and answers or
\* raises, wait_start is read
StartExecution ==
    /\ pc = "execute_step_function"
    /\ \E d \in 0..MaxCallSeconds, accepted \in BOOLEAN :
         LET now == exe.clock + d
         IN  IF accepted
             THEN /\ exe' = [exe EXCEPT !.clock = now,
                                        !.execution_arn = ExecutionArn(exe.execution_name),
                                        !.sfn = Running,
                                        !.wait_start = now]
                  /\ pc' = "while"
             ELSE /\ exe' = [exe EXCEPT !.clock = now,
                                        !.result = ErrorResult("ExecutionAlreadyExists", now)]
                  /\ pc' = "Done"
    /\ UNCHANGED << entry, event, tmp, poolVars, serOut, clsOut, fltOut,
                    singleOut, snsOut, published, moreVars >>

\* The orchestrator ends the execution; the caller learns it by polling.
ExecutionEnds ==
    /\ entry = "execute"
    /\ pc \in {"while", "sleep"}
    /\ exe.sfn = Running
    /\ \E ending \in Endings : exe' = [exe EXCEPT !.sfn = ending]
    /\ UNCHANGED << entry, pc, event, tmp, poolVars, serOut, clsOut, fltOut,
                    singleOut, snsOut, published, moreVars >>

\* lines 94-121, 135-142: the loop test holds, describe_execution is called
\* and answers the execution's status or raises
DescribeExecution ==
    /\ pc = "while"
    /\ exe.clock - exe.wait_start < max_wait_time
    /\ \E d \in 0..MaxCallSeconds, answered \in BOOLEAN :
         LET now == exe.clock + d
             status_response == exe.sfn
         IN  IF ~ answered
             THEN /\ exe' = [exe EXCEPT !.clock = now,
                                        !.result = ErrorResult("ThrottlingException", now)]
                  /\ pc' = "Done"
             ELSE IF status_response.status \in TerminalStatuses
             THEN /\ exe' = [exe EXCEPT !.clock = now,
                                        !.polled = @ \cup {status_response.status},
                                        !.result = TerminalResult(status_response, now)]
                  /\ pc' = "Done"
             ELSE /\ exe' = [exe EXCEPT !.clock = now,
                                        !.polled = @ \cup {status_response.status}]
                  /\ pc' = "sleep"
    /\ UNCHANGED << entry, event, tmp, poolVars, serOut, clsOut, fltOut,
                    singleOut, snsOut, published, moreVars >>

\* line 123: time.sleep(1)
Sleep ==
    /\ pc = "sleep"
    /\ exe' = [exe EXCEPT !.clock = @ + 1]
    /\ pc' = "while"
    /\ UNCHANGED << entry, event, tmp, poolVars, serOut, clsOut, fltOut,
                    singleOut, snsOut, published, moreVars >>

\* lines 94, 125-133: the loop test fails
WaitTimeout ==
    /\ pc = "while"
    /\ ~ (exe.clock - exe.wait_start < max_wait_time)
    /\ exe' = [exe EXCEPT !.result = TimeoutResult(exe.clock)]
    /\ pc' = "Done"
    /\ UNCHANGED << entry, event, tmp, poolVars, serOut, clsOut, fltOut,
                    singleOut, snsOut, published, moreVars >>

\* the state execute_step_function is entered in
ExecuteStart(execution_name) ==
    [clock |-> 0, start_time |-> 0, wait_start |-> 0,
     execution_name |-> ExecutionName(execution_name),
     execution_arn |-> << >>, sfn |-> [status |-> "NOT_STARTED"],
     polled |-> {}, result |-> [status |-> "NONE"]]

\* -------------------------------------------------------------------------
\* src/sns_error_notifications.py: StepFunctionErrorHandler
SNS_TOPIC_ARN == << "arn:aws:sns", "scones-unlimited-ml-errors" >>

\* what sns.publish does with a message: it accepts it or raises
PublishOutcomes ==
    { [ok |-> TRUE, MessageId |-> "m-1"],
      [ok |-> FALSE, error |-> "AuthorizationError"],
      [ok |-> FALSE, error |-> "EndpointConnectionError"] }

\* the except clause does not match the error: it leaves the handler
PublishExceptEscapes(e) ==
    [kind |-> "raised", error |-> e, log |-> << >>, publish_calls |-> 1]

\* lines 134-142: except Exception as e
PublishExcept(e) ==
    [kind |-> "returned",
     response |-> [statusCode |-> 500,
                   body |-> json_dumps([error |-> "Failed to send notification",
                                        details |-> e])],
     log |-> << "Failed to send SNS notification: " \o e >>,
     publish_calls |-> 1]

\* lines 46-100: the notification, by the fields it is formatted from
Notification(detail) ==
    LET execution_arn == Get(detail, "executionArn", "Unknown")
    IN  [TopicArn |-> SNS_TOPIC_ARN,
         execution_name |-> IF execution_arn # "Unknown"
                            THEN execution_arn[Len(execution_arn)] ELSE "Unknown",
         status |-> Get(detail, "status", "Unknown"),
         error |-> Get(detail, "error", "No error details available"),
         cause |-> Get(detail, "cause", "No cause details available")]

\* only FAILED is notified
ErrorStatusesFailedOnly == {"FAILED"}

\* line 39
ErrorStatuses == {"FAILED", "TIMED_OUT", "ABORTED"}

\* lines 23-142
ErrorHandler ==
    /\ pc = "StepFunctionErrorHandler"
    /\ LET detail == Get(event, "detail", << >>)
           status == Get(detail, "status", "Unknown")
       IN  IF status \notin ErrorStatuses
           THEN /\ snsOut' = [kind |-> "returned",
                              response |-> [statusCode |-> 200,
                                            body |-> json_dumps("Not an error status, skipping notification")],
                              log |-> << >>,
                              publish_calls |-> 0]
                /\ UNCHANGED published
           ELSE \E outcome \in PublishOutcomes :
                  IF outcome.ok
                  THEN /\ published' = Append(published, Notification(detail))
                       /\ snsOut' = [kind |-> "returned",
                                     response |-> [statusCode |-> 200,
                                        body |-> json_dumps(
                                          [message |-> "Error notification sent successfully",
                                           messageId |-> outcome.MessageId,
                                           execution |-> Notification(detail).execution_name,
                                           status |-> status])],
                                     log |-> << >>,
                                     publish_calls |-> 1]
                  ELSE /\ snsOut' = PublishExcept(outcome.error)
                       /\ UNCHANGED published
    /\ pc' = "Done"
    /\ UNCHANGED << entry, event, tmp, poolVars, serOut, clsOut, fltOut,
                    singleOut, exe, moreVars >>

\* the state-change events EventBridge delivers
ErrorEvents ==
    { [detail |-> [executionArn |-> ExecutionArn("load-test-1"), status |-> e.status] @@ e] :
        e \in Endings \cup {Running} }
    \cup { [detail |-> [status |-> st]] : st \in TerminalStatuses }
    \cup { [source |-> "aws.states"],
           [detail |-> [executionArn |-> ExecutionArn("load-test-1")]] }

\* -------------------------------------------------------------------------
\* src/multi_class_vehicle_extension.py: the multi-class filter.
\* Confidences and thresholds are in hundredths.
VEHICLE_CLASSES ==
    << "bicycle", "motorcycle", "automobile", "truck", "bus", "pickup_truck",
       "streetcar", "tank", "tractor", "lawn_mower" >>

ROUTING_RULES ==
    [bicycle |-> [max_distance |-> 5, max_weight |-> 10, eco_friendly |-> TRUE],
     motorcycle |-> [max_distance |-> 25, max_weight |-> 25, eco_friendly |-> FALSE],
     automobile |-> [max_distance |-> 50, max_weight |-> 50, eco_friendly |-> FALSE],
     truck |-> [max_distance |-> 100, max_weight |-> 500, eco_friendly |-> FALSE],
     bus |-> [max_distance |-> 30, max_weight |-> 0, eco_friendly |-> FALSE],
     pickup_truck |-> [max_distance |-> 75, max_weight |-> 200, eco_friendly |-> FALSE]]

CONFIDENCE_THRESHOLDS ==
    [bicycle |-> 85, motorcycle |-> 85, automobile |-> 90, truck |-> 95, bus |-> 95,
     pickup_truck |-> 90, streetcar |-> 98, tank |-> 99, tractor |-> 95,
     lawn_mower |-> 90]

\* lines 214 and 227: CONFIDENCE_THRESHOLDS.get(class_name, 0.95)
ClassThreshold(class_name) == Get(CONFIDENCE_THRESHOLDS, class_name, 95)

\* a truck is sent to the dispatcher
generate_routing_decision_without_truck(vehicle_type, confidence, routing_info, meets_threshold) ==
    IF ~ meets_threshold
    THEN [action |-> "REJECT", reason |-> << "Low confidence", confidence, vehicle_type >>,
          alternative |-> "Request new image or manual classification"]
    ELSE IF vehicle_type \in {"bicycle", "motorcycle"}
    THEN [action |-> "ASSIGN_ROUTE", route_type |-> "SHORT_DISTANCE",
          max_distance_km |-> Get(routing_info, "max_distance", 5),
          max_weight_kg |-> Get(routing_info, "max_weight", 10),
          priority |-> "HIGH", special_instructions |-> "Weather-dependent scheduling"]
    ELSE IF vehicle_type \in {"automobile", "pickup_truck"}
    THEN [action |-> "ASSIGN_ROUTE", route_type |-> "MEDIUM_DISTANCE",
          max_distance_km |-> Get(routing_info, "max_distance", 50),
          max_weight_kg |-> Get(routing_info, "max_weight", 50),
          priority |-> "MEDIUM", special_instructions |-> "All-weather capable"]
    ELSE [action |-> "MANUAL_REVIEW", reason |-> << "Unusual vehicle type", vehicle_type >>,
          alternative |-> "Human dispatcher review required"]

\* lines 282-328
generate_routing_decision(vehicle_type, confidence, routing_info, meets_threshold) ==
    IF ~ meets_threshold
    THEN [action |-> "REJECT", reason |-> << "Low confidence", confidence, vehicle_type >>,
          alternative |-> "Request new image or manual classification"]
    ELSE IF vehicle_type \in {"bicycle", "motorcycle"}
    THEN [action |-> "ASSIGN_ROUTE", route_type |-> "SHORT_DISTANCE",
          max_distance_km |-> Get(routing_info, "max_distance", 5),
          max_weight_kg |-> Get(routing_info, "max_weight", 10),
          priority |-> "HIGH", special_instructions |-> "Weather-dependent scheduling"]
    ELSE IF vehicle_type \in {"automobile", "pickup_truck"}
    THEN [action |-> "ASSIGN_ROUTE", route_type |-> "MEDIUM_DISTANCE",
          max_distance_km |-> Get(routing_info, "max_distance", 50),
          max_weight_kg |-> Get(routing_info, "max_weight", 50),
          priority |-> "MEDIUM", special_instructions |-> "All-weather capable"]
    ELSE IF vehicle_type = "truck"
    THEN [action |-> "ASSIGN_ROUTE", route_type |-> "LONG_DISTANCE_BULK",
          max_distance_km |-> Get(routing_info, "max_distance", 100),
          max_weight_kg |-> Get(routing_info, "max_weight", 500),
          priority |-> "LOW", special_instructions |-> "Commercial delivery routes only"]
    ELSE [action |-> "MANUAL_REVIEW", reason |-> << "Unusual vehicle type", vehicle_type >>,
          alternative |-> "Human dispatcher review required"]

\* lines 265-279: except Exception as e; the response and, beside it, the
\* call of generate_routing_decision the try block made before it raised
MultiClassExcept(e, body, call) ==
    [kind |-> "returned",
     response |-> [statusCode |-> 200,
                   body |-> json_dumps(
                     [error |-> e,
                      vehicle_classification |-> Get(body, "top_prediction", << >>),
                      routing_decision |-> [action |-> "MANUAL_REVIEW",
                                            reason |-> "Classification failed quality checks",
                                            fallback_vehicle |-> "bicycle"]])],
     call |-> call]

\* lines 224-230: the predictions that meet the threshold of their class
FilteredPredictions(predictions) ==
    LET marked == [i \in DOMAIN predictions |->
                     predictions[i] @@
                       [meets_threshold |->
                          predictions[i].confidence >= ClassThreshold(predictions[i].class_name),
                        threshold_used |-> ClassThreshold(predictions[i].class_name)]]
    IN  [all |-> marked, high |-> SelectSeq(marked, LAMBDA p : p.meets_threshold)]

\* a prediction below its threshold is answered all the same
BelowRequirementsIgnored(meets_threshold) == FALSE

\* line 255: if not meets_threshold: raise
BelowRequirements(meets_threshold) == ~ meets_threshold

\* lines 201-279
multi_class_filter_lambda_handler(ev) ==
    LET body == json_loads_document(Get(ev, "body", json_dumps(<< >>)))
        predictions == Get(body, "predictions", << >>)
        top_prediction == Get(body, "top_prediction", << >>)
        routing_info == Get(body, "routing_info", << >>)
        vehicle_type == Get(top_prediction, "class_name", "unknown")
        confidence == Get(top_prediction, "confidence", 0)
        threshold == ClassThreshold(vehicle_type)
        meets_threshold == confidence >= threshold
        routing_decision ==
            generate_routing_decision(vehicle_type, confidence, routing_info, meets_threshold)
        call == << [vehicle_type |-> vehicle_type, meets_threshold |-> meets_threshold,
                    result |-> routing_decision] >>
        filtered == FilteredPredictions(predictions)
        response_body ==
            [vehicle_classification |->
               [primary_vehicle |-> vehicle_type, confidence |-> confidence,
                threshold_used |-> threshold, meets_threshold |-> meets_threshold],
             all_predictions |-> filtered.all,
             high_confidence_predictions |-> filtered.high,
             routing_decision |-> routing_decision,
             business_rules |->
               [can_deliver |->
                  meets_threshold /\ vehicle_type \in {"bicycle", "motorcycle",
                                                        "automobile", "pickup_truck"},
                requires_manual_review |->
                  ~ meets_threshold \/ vehicle_type \in {"tank", "streetcar", "tractor"},
                eco_friendly_option |-> Get(routing_info, "eco_friendly", FALSE)]]
    IN  IF predictions = << >>
        THEN MultiClassExcept("NO_PREDICTIONS_RECEIVED", body, << >>)
        ELSE IF BelowRequirements(meets_threshold)
        THEN MultiClassExcept("CONFIDENCE_BELOW_THRESHOLD", body, call)
        ELSE IF vehicle_type \notin {"bicycle", "motorcycle", "automobile",
                                     "pickup_truck", "truck"}
        THEN MultiClassExcept("UNSUPPORTED_VEHICLE_TYPE", body, call)
        ELSE [kind |-> "returned",
              response |-> [statusCode |-> 200, body |-> json_dumps(response_body)],
              call |-> call]

MultiClassFilter ==
    /\ pc = "MultiClassFilterConfidence"
    /\ multiOut' = multi_class_filter_lambda_handler(event)
    /\ pc' = "Done"
    /\ UNCHANGED << entry, event, tmp, poolVars, serOut, clsOut, fltOut,
                    singleOut, exe, snsOut, published, load, analysisOut >>

\* the confidences a top prediction is given, around every threshold
Confidences == {80, 85, 89, 90, 95, 98, 99}

\* lines 128-157: the body MultiClassImageClassification returns for a top
\* prediction, with a runner-up or without
ClassifiedBody(class_name, confidence, others) ==
    LET top_prediction == [class_name |-> class_name, confidence |-> confidence]
    IN  [predictions |-> << top_prediction >> \o others,
         top_prediction |-> top_prediction,
         routing_info |-> Get(ROUTING_RULES, class_name, << >>)]

\* what the filter is invoked with: the bodies of the classification step,
\* its error body, predictions for a class the tables do not know, a body
\* without top_prediction and an event without body
MultiClassEvents ==
    { [statusCode |-> 200, body |-> json_dumps(ClassifiedBody(c, x, others))] :
        c \in { VEHICLE_CLASSES[i] : i \in DOMAIN VEHICLE_CLASSES } \cup {"scooter"},
        x \in Confidences,
        others \in { << >>, << [class_name |-> "bicycle", confidence |-> 1] >>,
                     << [class_name |-> "tank", confidence |-> 2] >> } }
    \cup { [statusCode |-> 500, body |-> json_dumps([error |-> "ModelError", s3_key |-> "test/a/x.png"])],
           [statusCode |-> 200,
            body |-> json_dumps([predictions |-> << [class_name |-> "bicycle", confidence |-> 99] >>])],
           [statusCode |-> 200] }

\* -------------------------------------------------------------------------
\* the events a run of the state machine is started with
WorkflowEvents ==
    { [s3_bucket |-> BUCKET, s3_keys |-> ks] : ks \in SeqsUpTo(Keys, MaxItems) }
    \cup { [s3_bucket |-> BUCKET, s3_keys |-> Copies(k, n)] :
             k \in {KeyAX, KeyCW}, n \in 1..MaxUniform }
    \cup { [s3_bucket |-> BUCKET, s3_key |-> k] : k \in Keys \cup {KeyBV} }
    \cup { [s3_bucket |-> BUCKET, s3_keys |-> << KeyBV, KeyBX >>] }

\* serialized images as BatchSerializeImageData returns them, and one whose
\* image_data is not base64
StoredImage(k) == SerializeOk(k, BUCKET, b64encode(ObjectBytes(k)))
TruncatedImage == SerializeOk(KeyAX, BUCKET, << 34, 21, 1 >>)

ClassifyEvents ==
    { [body |-> [serialized_images |-> ims]] :
        ims \in SeqsUpTo({ StoredImage(k) : k \in StoredKeys \cap Keys }
                            \cup {TruncatedImage}, MaxItems) }
    \cup { [body |-> [serialized_images |-> << StoredImage(KeyBV), StoredImage(KeyBX) >>]] }
    \cup { [body |-> [serialized_images |-> Copies(StoredImage(k), n)]] :
             k \in {KeyAX, KeyAY}, n \in 1..MaxUniform }

\* four classifications: two accepted, one below the threshold, one whose
\* inferences do not parse
MixedClassifications ==
    [i \in 1..4 |-> classify_single_image(
                       StoredImage(<< KeyAX, KeyBV, KeyBX, KeyAZ >>[i])).result]

\* classification results as ParallelImageClassification returns them
FilterEvents ==
    LET done == { classify_single_image(StoredImage(k)).result : k \in StoredKeys }
        ok == { c \in done : c.success }
        failed == { c \in done : ~ c.success }
    IN  { [body |-> [classifications |-> cs, failed_classifications |-> fs]] :
            cs \in SeqsUpTo(ok, MaxItems), fs \in SeqsUpTo(failed, MaxItems) }
        \cup { [body |-> [classifications |-> cs]] : cs \in SeqsUpTo(ok, MaxItems) }
        \cup { [body |-> [classifications |-> MixedClassifications,
                          failed_classifications |-> fs]] : fs \in SeqsUpTo(failed, 1) }

\* what ImageClassification hands to FilterLowConfidenceInferences
SingleFilterEvents ==
    LET done == { ImageClassification([body |-> StoredImage(k)]) : k \in StoredKeys }
    IN  { d.response : d \in { r \in done : r.kind = "returned" } }

\* the inputs execute_step_function is called with
ExecuteInputs ==
    { [s3_bucket |-> BUCKET, s3_keys |-> ks] : ks \in { << KeyAX >>, << KeyAX, KeyCW >> } }

\* -------------------------------------------------------------------------
\* src/dummy_data_generator.py: analyze_results
\* the statuses a result carries: execute_step_function returns the status
\* of a finished execution (lines 101-112), TIMEOUT (line 128) or ERROR
\* (line 138); run_load_test adds EXCEPTION (line 196)
ResultStatuses == TerminalStatuses \cup {"TIMEOUT", "ERROR", "EXCEPTION"}

\* len([r for r in results if r['status'] in statuses])
CountStatus(rs, statuses) == Len(SelectSeq(rs, LAMBDA r : r.status \in statuses))

\* lines 246-276: what analyze_results counts and prints
analyze_results(rs) ==
    IF rs = << >>
    THEN [kind |-> "returned", printed |-> "No results to analyze"]
    ELSE [kind |-> "returned", printed |-> "Test Results Analysis",
          total |-> Len(rs),
          succeeded |-> CountStatus(rs, {"SUCCEEDED"}),
          failed |-> CountStatus(rs, {"FAILED"}),
          errors |-> CountStatus(rs, {"ERROR", "EXCEPTION", "TIMEOUT"}),
          error_details |-> CountStatus(rs, {"FAILED", "ERROR", "EXCEPTION", "TIMEOUT"})]

AnalyzeResults ==
    /\ pc = "analyze_results"
    /\ analysisOut' = analyze_results(event.results)
    /\ pc' = "Done"
    /\ UNCHANGED << entry, event, tmp, poolVars, serOut, clsOut, fltOut,
                    singleOut, exe, snsOut, published, multiOut, load >>

\* the result lists analyze_results is given
RECURSIVE ResultLists(_)
ResultLists(n) ==
    IF n = 0 THEN { << >> }
    ELSE LET shorter == ResultLists(n - 1)
         IN  shorter \cup { Append(rs, [status |-> s]) :
                              rs \in { l \in shorter : Len(l) = n - 1 },
                              s \in ResultStatuses }

AnalyzeInputs == { [results |-> rs] : rs \in ResultLists(MaxItems) }

\* -------------------------------------------------------------------------
\* src/dummy_data_generator.py: run_load_test
MaxExecutions == 3
MaxLoadWorkers == 2

\* what a call of execute_step_function in a worker thread comes back with
LoadStatuses == ResultStatuses \ {"EXCEPTION"}

\* the state run_load_test is entered in
LoadStart ==
    [pc |-> "run_load_test", i |-> 0, pending |-> << >>, running |-> {},
     done |-> {}, yielded |-> {}, results |-> << >>]

\* every thread of the executor takes a work item
WorkerIdleAlways(running, workers) == TRUE

\* ThreadPoolExecutor starts a thread per submit while it has fewer than
\* max_workers; a thread runs one work item at a time
WorkerIdle(running, workers) == Cardinality(running) < workers

\* as_completed(future_to_execution): the done futures it has not yielded
Completed(ld) == { f \in ld.done : f.execution_number \notin ld.yielded }

\* line 162: ThreadPoolExecutor(max_workers=max_workers)
LoadBegin ==
    /\ pc = "run_load_test"
    /\ load.pc = "run_load_test"
    /\ load' = IF event.max_workers <= 0
               THEN [load EXCEPT !.pc = "raised"]
               ELSE IF event.num_executions = 0
               THEN [load EXCEPT !.pc = "collecting"]
               ELSE [load EXCEPT !.pc = "submitting"]
    /\ UNCHANGED << entry, pc, event, tmp, poolVars, serOut, clsOut, fltOut,
                    singleOut, exe, snsOut, published, multiOut, analysisOut >>

\* lines 166-180: one turn of the submission loop; generate_test_case raises
\* when there is no test image, and the with block is left with nothing
\* submitted
LoadSubmit ==
    /\ pc = "run_load_test"
    /\ load.pc = "submitting"
    /\ load.i < event.num_executions
    /\ load' = IF event.test_images = 0
               THEN [load EXCEPT !.pc = "raised"]
               ELSE [load EXCEPT !.i = @ + 1,
                                 !.pending = Append(@, load.i + 1),
                                 !.pc = IF load.i + 1 = event.num_executions
                                        THEN "collecting" ELSE "submitting"]
    /\ UNCHANGED << entry, pc, event, tmp, poolVars, serOut, clsOut, fltOut,
                    singleOut, exe, snsOut, published, multiOut, analysisOut >>

\* a thread of the executor takes the oldest work item
LoadWorkerStart ==
    /\ pc = "run_load_test"
    /\ load.pending # << >>
    /\ WorkerIdle(load.running, event.max_workers)
    /\ load' = [load EXCEPT !.pending = Tail(@),
                            !.running = @ \cup {Head(load.pending)}]
    /\ UNCHANGED << entry, pc, event, tmp, poolVars, serOut, clsOut, fltOut,
                    singleOut, exe, snsOut, published, multiOut, analysisOut >>

\* execute_step_function returns in its thread: the future is done
LoadWorkerFinish ==
    /\ pc = "run_load_test"
    /\ \E k \in load.running, s \in LoadStatuses :
          load' = [load EXCEPT !.running = @ \ {k},
                               !.done = @ \cup {[execution_number |-> k, status |-> s]}]
    /\ UNCHANGED << entry, pc, event, tmp, poolVars, serOut, clsOut, fltOut,
                    singleOut, exe, snsOut, published, multiOut, analysisOut >>

\* lines 183-187: as_completed yields a done future, its result gets the
\* execution_number and is appended
LoadCollect ==
    /\ pc = "run_load_test"
    /\ load.pc = "collecting"
    /\ \E f \in Completed(load) :
          load' = [load EXCEPT !.yielded = @ \cup {f.execution_number},
                               !.results = Append(@, f)]
    /\ UNCHANGED << entry, pc, event, tmp, poolVars, serOut, clsOut, fltOut,
                    singleOut, exe, snsOut, published, multiOut, analysisOut >>

\* lines 183, 205: as_completed is exhausted when every future has been
\* yielded; the with block shuts the executor down and results is returned
LoadReturn ==
    /\ pc = "run_load_test"
    /\ load.pc = "collecting"
    /\ load.yielded = 1 .. load.i
    /\ load' = [load EXCEPT !.pc = "returned"]
    /\ pc' = "Done"
    /\ UNCHANGED << entry, event, tmp, poolVars, serOut, clsOut, fltOut,
                    singleOut, exe, snsOut, published, multiOut, analysisOut >>

\* the calls of run_load_test: num_executions, max_workers and the number
\* of images the generator has found
LoadInputs ==
    { [num_executions |-> n, max_workers |-> w, test_images |-> t] :
        n \in 0 .. MaxExecutions, w \in 0 .. MaxLoadWorkers, t \in {0, 1} }

Init ==
    /\ \/ /\ entry = "workflow"
          /\ pc = "BatchSerializeImages"
          /\ event \in WorkflowEvents
          /\ exe = [clock |-> 0]
       \/ /\ entry = "classify"
          /\ pc = "ParallelClassification"
          /\ event \in ClassifyEvents
          /\ exe = [clock |-> 0]
       \/ /\ entry = "filter"
          /\ pc = "BatchFilterConfidence"
          /\ event \in FilterEvents
          /\ exe = [clock |-> 0]
       \/ /\ entry = "single_filter"
          /\ pc = "FilterLowConfidenceInferences"
          /\ event \in SingleFilterEvents
          /\ exe = [clock |-> 0]
       \/ /\ entry = "execute"
          /\ pc = "execute_step_function"
          /\ event \in ExecuteInputs
          /\ \E execution_name \in {"", "load-test-1"} : exe = ExecuteStart(execution_name)
       \/ /\ entry = "notify"
          /\ pc = "StepFunctionErrorHandler"
          /\ event \in ErrorEvents
          /\ exe = [clock |-> 0]
       \/ /\ entry = "multi_filter"
          /\ pc = "MultiClassFilterConfidence"
          /\ event \in MultiClassEvents
          /\ exe = [clock |-> 0]
       \/ /\ entry = "analyze"
          /\ pc = "analyze_results"
          /\ event \in AnalyzeInputs
          /\ exe = [clock |-> 0]
       \/ /\ entry = "load"
          /\ pc = "run_load_test"
          /\ event \in LoadInputs
          /\ exe = [clock |-> 0]
    /\ load = IF entry = "load" THEN LoadStart ELSE [pc |-> "none"]
    /\ tmp = [n \in {} |-> << >>]
    /\ poolStage = "none"
    /\ items = << >>
    /\ max_workers = 0
    /\ queue = << >>
    /\ inflight = EmptyBag
    /\ finished = EmptyBag
    /\ results = << >>
    /\ dispatched = EmptyBag
    /\ serOut = NotRun
    /\ clsOut = NotRun
    /\ fltOut = NotRun
    /\ singleOut = NotRun
    /\ snsOut = NotRun
    /\ published = << >>
    /\ multiOut = NotRun
    /\ analysisOut = NotRun

Next ==
    \/ SerializeBegin
    \/ WorkerTake
    \/ SerializeDownload
    \/ SerializeEncode
    \/ Collect
    \/ SerializeReturn
    \/ CheckSerializationSuccess
    \/ ClassifyBegin
    \/ ClassifyInvoke
    \/ ClassifyReturn
    \/ BatchFilter
    \/ SingleFilter
    \/ StartExecution
    \/ ExecutionEnds
    \/ DescribeExecution
    \/ Sleep
    \/ WaitTimeout
    \/ ErrorHandler
    \/ MultiClassFilter
    \/ AnalyzeResults
    \/ LoadBegin
    \/ LoadSubmit
    \/ LoadWorkerStart
    \/ LoadWorkerFinish
    \/ LoadCollect
    \/ LoadReturn

Spec == Init /\ [][Next]_vars

\* The executions of the state machine alone, over three keys: one stored
\* and classified, one stored and refused by the endpoint, one not stored.
\* Step Functions runs the state it is in, a Lambda invocation runs to its
\* end and the executor's threads are scheduled: a step that can be taken is
\* taken.
WorkflowInit ==
    /\ Init
    /\ entry = "workflow"
    /\ "s3_keys" \in DOMAIN event
    /\ \A i \in DOMAIN event.s3_keys : event.s3_keys[i] \in {KeyAX, KeyAY, KeyCW}

WorkflowNext ==
    \/ SerializeBegin
    \/ WorkerTake
    \/ SerializeDownload
    \/ SerializeEncode
    \/ Collect
    \/ SerializeReturn
    \/ CheckSerializationSuccess
    \/ ClassifyBegin
    \/ ClassifyInvoke
    \/ ClassifyReturn
    \/ BatchFilter

FairSpec == WorkflowInit /\ [][WorkflowNext]_vars /\ WF_vars(WorkflowNext)

\* The calls of execute_step_function alone.  Every call to the orchestrator
\* returns or raises and the thread goes on, so the caller's steps are
\* fair; the execution itself need never end.
ExecuteInit == Init /\ entry = "execute"

ExecuteCaller ==
    \/ StartExecution
    \/ DescribeExecution
    \/ Sleep
    \/ WaitTimeout

ExecuteNext ==
    \/ ExecuteCaller
    \/ ExecutionEnds

ExecuteSpec == ExecuteInit /\ [][ExecuteNext]_vars /\ WF_vars(ExecuteCaller)

\* =========================================================================
\* Properties
\* =========================================================================
KeysOf(res) == [i \in DOMAIN res |-> res[i].s3_key]

\* the environment's answer for one item, whatever its siblings do
SerializeFails(s3_key) == s3_key \notin StoredKeys

ClassifyFails(image) ==
    LET decoded == b64decode(image.image_data)
    IN  ~ decoded.ok \/ ~ InvokeEndpoint(decoded.bytes).ok

SerializeReported == poolStage = "serialize" /\ serOut.kind = "returned"
ClassifyReported == poolStage = "classify" /\ clsOut.kind = "returned"

\* C1: the report a batch stage returns holds exactly one result per input
\* item: successful_count + failed_count is the number of input items, and
\* the s3_keys of the two lists together are the input's, as multisets.
BatchAccounting ==
    /\ SerializeReported =>
         LET b == serOut.response.body
         IN  /\ b.successful_count + b.failed_count = Len(items)
             /\ b.successful_count = Len(b.serialized_images)
             /\ b.failed_count = Len(b.failed_images)
             /\ SeqToBag(KeysOf(b.serialized_images \o b.failed_images)) = SeqToBag(items)
    /\ ClassifyReported =>
         LET b == clsOut.response.body
         IN  /\ b.successful_count + b.failed_count = Len(items)
             /\ b.successful_count = Len(b.classifications)
             /\ b.failed_count = Len(b.failed_classifications)
             /\ SeqToBag(KeysOf(b.classifications \o b.failed_classifications))
                  = SeqToBag(KeysOf(items))

\* both stages have reported a batch with successes, failures and a key
\* submitted twice
BatchAccountingWitness ==
    /\ entry = "workflow"
    /\ ClassifyReported
    /\ clsOut.response.body.successful_count >= 2
    /\ clsOut.response.body.failed_count >= 1
    /\ \E i, j \in DOMAIN items : i # j /\ items[i] = items[j]

\* the results and the file system as one failing operation leaves them
FailureCapturedState ==
    /\ \A f \in BagToSet(finished) : ~ f.raised
    /\ serOut.kind = "raised" => RequestedKeys(event) = << >>
    /\ clsOut.kind = "raised" => event.body.serialized_images = << >>
    /\ \A i \in DOMAIN results :
         /\ "error" \in DOMAIN results[i] <=> ~ results[i].success
         /\ poolStage = "serialize" =>
              results[i].success = ~ SerializeFails(results[i].s3_key)
    /\ SerializeReported =>
         LET b == serOut.response.body
         IN  /\ SeqToBag(KeysOf(b.failed_images))
                  = SeqToBag(SelectSeq(items, SerializeFails))
             /\ SeqToBag(KeysOf(b.serialized_images))
                  = SeqToBag(SelectSeq(items, LAMBDA k : ~ SerializeFails(k)))
    /\ ClassifyReported =>
         LET b == clsOut.response.body
         IN  /\ SeqToBag(KeysOf(b.failed_classifications))
                  = SeqToBag(KeysOf(SelectSeq(items, ClassifyFails)))
             /\ SeqToBag(KeysOf(b.classifications))
                  = SeqToBag(KeysOf(SelectSeq(items, LAMBDA im : ~ ClassifyFails(im))))

\* a step in which an operation ends in failure
FailureStep ==
    \E f \in BagToSet(finished') :
        /\ ~ f.raised
        /\ ~ f.result.success
        /\ CopiesIn(f, finished') = CopiesIn(f, finished) + 1

\* C2: a failing per-item operation ends as that item's result with
\* success = FALSE and an error text; no exception reaches the handler, which
\* raises only for an empty batch; which items succeed and which fail is
\* decided by each item alone, so the report lists as failed exactly the
\* failing items and as successful exactly their siblings; and the step in
\* which an operation fails changes nothing but that operation: the files,
\* the queue, the other running operations, the collected results and the
\* handler's position stay as they are.
FailureCaptured ==
    /\ []FailureCapturedState
    /\ [][FailureStep =>
            /\ tmp' = tmp
            /\ pc' = pc
            /\ queue' = queue
            /\ results' = results
            /\ serOut' = serOut /\ clsOut' = clsOut
            /\ inflight' \sqsubseteq inflight
            /\ BagCardinality(inflight') = BagCardinality(inflight) - 1
            /\ BagCardinality(finished') = BagCardinality(finished) + 1]_vars

\* the serialization stage has reported a batch in which a download failed
\* and two siblings succeeded
FailureCapturedWitness ==
    /\ SerializeReported
    /\ pc = "CheckSerializationSuccess"
    /\ serOut.response.body.failed_count >= 1
    /\ serOut.response.body.successful_count >= 2

\* C3: a stage that has returned its report has no operation queued or
\* running and no done future left uncollected.
Barrier ==
    (SerializeReported \/ ClassifyReported) =>
        /\ queue = << >>
        /\ inflight = EmptyBag
        /\ finished = EmptyBag

\* the classification stage has returned for a batch larger than its pool
BarrierWitness ==
    /\ ClassifyReported
    /\ Len(items) > CLASSIFY_WORKERS

\* C4: never more than 10 downloads, nor more than 5 endpoint invocations,
\* are in flight.
ConcurrencyBound ==
    /\ poolStage = "serialize" => BagCardinality(inflight) <= SERIALIZE_WORKERS
    /\ poolStage = "classify" => BagCardinality(inflight) <= CLASSIFY_WORKERS

\* the limit binds: 10 downloads in flight and an item still waiting
ConcurrencyBoundWitness ==
    /\ pc = "SerializePool"
    /\ BagCardinality(inflight) = SERIALIZE_WORKERS
    /\ queue # << >>

\* C5: every submitted item is either still queued or has been taken by a
\* worker exactly once; every taken item is running or has exactly one
\* result; a stage that returns has taken every item; and a collected result
\* stays in the list as it is.
OnceEachState ==
    poolStage # "none" =>
        /\ dispatched (+) SeqToBag(queue) = SeqToBag(items)
        /\ BagCardinality(inflight) + BagCardinality(finished) + Len(results)
             = BagCardinality(dispatched)
        /\ (SerializeReported \/ ClassifyReported) =>
             dispatched = SeqToBag(items) /\ Len(results) = Len(items)

OnceEach ==
    /\ []OnceEachState
    /\ [][poolStage' = poolStage =>
            /\ Len(results') >= Len(results)
            /\ SubSeq(results', 1, Len(results)) = results]_vars

\* a stage has returned for a batch holding the same item twice
OnceEachWitness ==
    /\ SerializeReported
    /\ Len(results) = 3
    /\ results[1] = results[2]
    /\ results[3] # results[1]

\* C6: a batch stage run on an empty item list returns a report with all
\* counts zero and both lists empty, and raises nothing.
EmptyBatchReport ==
    /\ ( /\ entry = "workflow"
         /\ pc \in {"CheckSerializationSuccess", "SerializationFailed", "ExecutionFailed"}
         /\ RequestedKeys(event) = << >> )
       => /\ serOut.kind = "returned"
          /\ serOut.response.body
               = [serialized_images |-> << >>, failed_images |-> << >>,
                  total_requested |-> 0, successful_count |-> 0, failed_count |-> 0]
    /\ ( /\ entry = "classify"
         /\ pc = "Done"
         /\ event.body.serialized_images = << >> )
       => /\ clsOut.kind = "returned"
          /\ clsOut.response.body
               = [classifications |-> << >>, failed_classifications |-> << >>,
                  total_processed |-> 0, successful_count |-> 0, failed_count |-> 0]

\* C7: the image_data of every successful fetch-and-encode result is the
\* encoding of the bytes stored under the result's own key.
OwnBytesEncoded ==
    poolStage = "serialize" =>
        /\ \A i \in DOMAIN results :
             results[i].success =>
                results[i].image_data = b64encode(ObjectBytes(results[i].s3_key))
        /\ \A f \in BagToSet(finished) :
             (~ f.raised /\ f.result.success) =>
                f.result.image_data = b64encode(ObjectBytes(f.result.s3_key))

\* what the filter was given and what it counted
FilterRan == fltOut.kind # "none"
Classified == Len(event.body.classifications)
FailedClassified ==
    IF "failed_classifications" \in DOMAIN event.body
    THEN Len(event.body.failed_classifications) ELSE 0

\* C8: when every operation of a non-empty batch fails, the stage reports no
\* success and N failures, and the status computed from that report is the
\* status of rule 1.
AllFailedStatus ==
    /\ (SerializeReported /\ \A i \in DOMAIN items : SerializeFails(items[i])) =>
          /\ serOut.response.body.serialized_images = << >>
          /\ Len(serOut.response.body.failed_images) = Len(items)
    /\ (ClassifyReported /\ \A i \in DOMAIN items : ClassifyFails(items[i])) =>
          /\ clsOut.response.body.classifications = << >>
          /\ Len(clsOut.response.body.failed_classifications) = Len(items)
    /\ (FilterRan /\ Classified = 0 /\ FailedClassified > 0) =>
          fltOut.status = "ALL_LOW_CONFIDENCE"

\* C9: the status is HIGH_ERROR_RATE exactly when rule 1 was not applied and
\* the failures are more than half of all the items of the batch (successful
\* plus failed); failures of at most half with an accepted result is SUCCESS.
HighErrorRateIsMajority ==
    FilterRan =>
        LET total == Classified + FailedClassified
            failures == fltOut.summary.error_count
            accepted == fltOut.summary.high_confidence_count
            rule1 == fltOut.status = "ALL_LOW_CONFIDENCE"
        IN  /\ fltOut.status = "HIGH_ERROR_RATE" <=> (~ rule1 /\ 2 * failures > total)
            /\ (2 * failures <= total /\ accepted > 0) => fltOut.status = "SUCCESS"

\* C10: the rules are tried in order, rule 1 winning over rule 2 and rule 2
\* over rule 3; every run of the filter gets one of the four statuses; and
\* the fall-through status is given exactly when the filter was handed no
\* item at all, never when it processed one.
StatusRules ==
    FilterRan =>
        LET s == fltOut.summary
            rule1 == s.high_confidence_count = 0 /\ s.total_processed > 0
            rule2 == 2 * s.error_count > s.total_processed
        IN  /\ fltOut.status \in {"ALL_LOW_CONFIDENCE", "HIGH_ERROR_RATE",
                                  "SUCCESS", "NO_VALID_PREDICTIONS"}
            /\ rule1 => fltOut.status = "ALL_LOW_CONFIDENCE"
            /\ (~ rule1 /\ rule2) => fltOut.status = "HIGH_ERROR_RATE"
            /\ (~ rule1 /\ ~ rule2 /\ s.high_confidence_count > 0) => fltOut.status = "SUCCESS"
            /\ fltOut.status = "NO_VALID_PREDICTIONS" <=> Classified + FailedClassified = 0
            /\ s.total_processed > 0 => fltOut.status # "NO_VALID_PREDICTIONS"

\* the filter has fallen through all three rules
StatusRulesWitness ==
    /\ FilterRan
    /\ fltOut.status = "NO_VALID_PREDICTIONS"

\* what the filter's loop makes of one classification it was given
ParseFails(classification) == ~ json_loads(classification.inferences).ok
BelowThreshold(classification) ==
    /\ ~ ParseFails(classification)
    /\ SeqMax(json_loads(classification.inferences).value) < THRESHOLD
AtOrAboveThreshold(classification) ==
    /\ ~ ParseFails(classification)
    /\ SeqMax(json_loads(classification.inferences).value) >= THRESHOLD
GivenFailedClassifications ==
    IF "failed_classifications" \in DOMAIN event.body
    THEN event.body.failed_classifications ELSE << >>

\* C11: when the batch filter's overall status is SUCCESS, the response it
\* returns holds every failed item: failed_classifications is the list it
\* was given, processing_errors holds every classification whose inferences
\* do not parse and low_confidence_results every one below the threshold.
FailuresSurfaced ==
    (FilterRan /\ fltOut.status = "SUCCESS") =>
        /\ fltOut.kind = "returned"
        /\ LET b == fltOut.response.body
               given == event.body.classifications
           IN  /\ b.overall_status = "SUCCESS"
               /\ b.failed_classifications = GivenFailedClassifications
               /\ SeqToBag(KeysOf(b.processing_errors))
                    = SeqToBag(KeysOf(SelectSeq(given, ParseFails)))
               /\ SeqToBag(KeysOf(b.low_confidence_results))
                    = SeqToBag(KeysOf(SelectSeq(given, BelowThreshold)))
               /\ b.summary.error_count
                    = Len(b.processing_errors) + Len(b.failed_classifications)
               /\ b.summary.low_confidence_count = Len(b.low_confidence_results)

\* a SUCCESS verdict over a batch with all three kinds of failure
FailuresSurfacedWitness ==
    /\ FilterRan
    /\ fltOut.status = "SUCCESS"
    /\ GivenFailedClassifications # << >>
    /\ \E i \in DOMAIN event.body.classifications :
         ParseFails(event.body.classifications[i])
    /\ \E i \in DOMAIN event.body.classifications :
         BelowThreshold(event.body.classifications[i])

\* the score vector of the single-image filter's event
SingleFilterRan == singleOut.kind # "none"
SingleInferences == json_loads(json_loads_document(event.body).inferences)

\* C12: a result is accepted exactly when the maximum of its scores is at
\* least the threshold 0.93, equality included: the batch filter's accepted
\* and rejected counts are the numbers of such classifications, [0.97, 0.03]
\* and [0.93, 0.07] are accepted and [0.80, 0.20] is rejected; the
\* single-image filter returns under the same condition and raises
\* THRESHOLD_CONFIDENCE_NOT_MET otherwise.
ThresholdAcceptance ==
    /\ FilterRan =>
         LET given == event.body.classifications
             one(text) == [body |-> [classifications |->
                             << [s3_key |-> KeyAX, s3_bucket |-> BUCKET,
                                 inferences |-> text] >>]]
         IN  /\ fltOut.summary.high_confidence_count
                  = Len(SelectSeq(given, AtOrAboveThreshold))
             /\ fltOut.summary.low_confidence_count
                  = Len(SelectSeq(given, BelowThreshold))
             /\ fltOut.kind = "returned" =>
                  /\ SeqToBag(KeysOf(fltOut.response.body.high_confidence_results))
                       = SeqToBag(KeysOf(SelectSeq(given, AtOrAboveThreshold)))
                  /\ \A i \in DOMAIN fltOut.response.body.high_confidence_results :
                       fltOut.response.body.high_confidence_results[i].meets_threshold
                  /\ \A i \in DOMAIN fltOut.response.body.low_confidence_results :
                       ~ fltOut.response.body.low_confidence_results[i].meets_threshold
             /\ FilterHandler(one("[0.97, 0.03]")).summary.high_confidence_count = 1
             /\ FilterHandler(one("[0.93, 0.07]")).summary.high_confidence_count = 1
             /\ FilterHandler(one("[0.80, 0.20]")).summary.high_confidence_count = 0
    /\ (SingleFilterRan /\ SingleInferences.ok) =>
         /\ singleOut.kind = "returned" <=> SeqMax(SingleInferences.value) >= THRESHOLD
         /\ singleOut.kind = "raised" <=> SeqMax(SingleInferences.value) < THRESHOLD
         /\ singleOut.kind = "raised" => singleOut.error = "THRESHOLD_CONFIDENCE_NOT_MET"

\* the batch filter has accepted a result whose maximum is the threshold
\* and rejected one below it
ThresholdAcceptanceWitness ==
    /\ FilterRan
    /\ fltOut.kind = "returned"
    /\ \E i \in DOMAIN fltOut.response.body.high_confidence_results :
         fltOut.response.body.high_confidence_results[i].max_confidence = THRESHOLD
    /\ fltOut.response.body.low_confidence_results # << >>

\* C13: given a non-empty batch (classifications and failed classifications
\* together) of which no result is accepted, the filter raises an exception
\* named ALL_PREDICTIONS_BELOW_THRESHOLD; and it never returns a response
\* whose accepted list is empty.
AllBelowThresholdSignaled ==
    FilterRan =>
        /\ (Classified + FailedClassified > 0
              /\ fltOut.summary.high_confidence_count = 0) =>
              /\ fltOut.kind = "raised"
              /\ fltOut.error = "ALL_PREDICTIONS_BELOW_THRESHOLD"
        /\ fltOut.kind = "returned" =>
              fltOut.response.body.high_confidence_results # << >>

\* C14: the batch filter returns a response exactly when the overall status
\* is SUCCESS; for ALL_LOW_CONFIDENCE, HIGH_ERROR_RATE and
\* NO_VALID_PREDICTIONS it raises, and the exception's message names the
\* status (ALL_PREDICTIONS_BELOW_THRESHOLD for the first).
ViolationsRaised ==
    FilterRan =>
        /\ fltOut.kind \in {"returned", "raised"}
        /\ fltOut.kind = "returned" <=> fltOut.status = "SUCCESS"
        /\ fltOut.status = "ALL_LOW_CONFIDENCE" =>
              fltOut.kind = "raised" /\ fltOut.error = "ALL_PREDICTIONS_BELOW_THRESHOLD"
        /\ fltOut.status = "HIGH_ERROR_RATE" =>
              fltOut.kind = "raised" /\ fltOut.error = "HIGH_ERROR_RATE"
        /\ fltOut.status = "NO_VALID_PREDICTIONS" =>
              fltOut.kind = "raised" /\ fltOut.error = "NO_VALID_PREDICTIONS"
        /\ entry = "workflow" =>
              pc = IF fltOut.status = "SUCCESS" THEN "ExecutionSucceeded"
                   ELSE "ExecutionFailed"

\* the filter has raised HIGH_ERROR_RATE over a batch with an accepted result
ViolationsRaisedWitness ==
    /\ FilterRan
    /\ fltOut.status = "HIGH_ERROR_RATE"
    /\ fltOut.summary.high_confidence_count > 0
    /\ fltOut.kind = "raised"

\* the identifiers a run that handles the items one after the other, in the
\* order submitted, reports as successful and as failed
SequentialSuccesses ==
    IF poolStage = "serialize"
    THEN SelectSeq(items, LAMBDA k : ~ SerializeFails(k))
    ELSE KeysOf(SelectSeq(items, LAMBDA im : ~ ClassifyFails(im)))
SequentialFailures ==
    IF poolStage = "serialize"
    THEN SelectSeq(items, SerializeFails)
    ELSE KeysOf(SelectSeq(items, ClassifyFails))
SeqToSet(s) == { s[i] : i \in DOMAIN s }

\* C15: the report of a batch stage has the same successful identifiers, the
\* same failed identifiers and the same counts as the run that handles the
\* items in order, whatever the interleaving of the workers; so any two runs
\* on the same items agree on them, and only the order of the lists differs.
InterleavingIndependent ==
    /\ SerializeReported =>
         LET b == serOut.response.body
         IN  /\ SeqToSet(KeysOf(b.serialized_images)) = SeqToSet(SequentialSuccesses)
             /\ SeqToSet(KeysOf(b.failed_images)) = SeqToSet(SequentialFailures)
             /\ b.successful_count = Len(SequentialSuccesses)
             /\ b.failed_count = Len(SequentialFailures)
    /\ ClassifyReported =>
         LET b == clsOut.response.body
         IN  /\ SeqToSet(KeysOf(b.classifications)) = SeqToSet(SequentialSuccesses)
             /\ SeqToSet(KeysOf(b.failed_classifications)) = SeqToSet(SequentialFailures)
             /\ b.successful_count = Len(SequentialSuccesses)
             /\ b.failed_count = Len(SequentialFailures)

\* a report whose successes are listed in another order than submitted,
\* beside a failure
InterleavingIndependentWitness ==
    /\ SerializeReported
    /\ KeysOf(serOut.response.body.serialized_images) # SequentialSuccesses
    /\ serOut.response.body.failed_count >= 1

\* C19: the executor of a batch stage is built with as many workers as there
\* are items when that is at most the stage's limit (10 for serialization, 5
\* for classification) and with the limit otherwise: one worker for a
\* singleton batch, never more workers than items, and never more
\* operations running than that.
WorkersProvisioned ==
    poolStage \in {"serialize", "classify"} =>
        LET limit == IF poolStage = "serialize" THEN 10 ELSE 5
            n == Len(items)
        IN  /\ max_workers = IF n <= limit THEN n ELSE limit
            /\ max_workers <= n
            /\ max_workers <= limit
            /\ n = 1 => max_workers = 1
            /\ BagCardinality(inflight) <= max_workers

\* the one worker of a singleton batch is running its item
WorkersProvisionedWitness ==
    /\ poolStage = "classify"
    /\ Len(items) = 1
    /\ max_workers = 1
    /\ BagCardinality(inflight) = 1

\* the form of an ItemResult of the stage that is running
WellFormed(r) ==
    /\ r.success \in BOOLEAN
    /\ "s3_key" \in DOMAIN r
    /\ "image_data" \in DOMAIN r <=> r.success
    /\ "error" \in DOMAIN r <=> ~ r.success
    /\ poolStage = "classify" => ("inferences" \in DOMAIN r <=> r.success)
    /\ poolStage = "serialize" => "inferences" \notin DOMAIN r
ItemKey(item) == IF poolStage = "serialize" THEN item ELSE item.s3_key
WellFormedState ==
    /\ \A f \in BagToSet(finished) : ~ f.raised /\ WellFormed(f.result)
    /\ \A i \in DOMAIN results :
         /\ WellFormed(results[i])
         /\ \E d \in BagToSet(dispatched) : ItemKey(d) = results[i].s3_key
\* a worker finishes: the result it leaves names the item the worker took
WorkerFinishes ==
    BagCardinality(finished') > BagCardinality(finished) =>
        \E w \in BagToSet(inflight (-) inflight'),
           f \in BagToSet(finished' (-) finished) :
            /\ ~ f.raised
            /\ f.result.s3_key = ItemKey(w.item)
            /\ f.result.success = IF poolStage = "serialize"
                                  THEN ~ SerializeFails(w.item)
                                  ELSE ~ ClassifyFails(w.item)

\* C20: every result a worker of a batch stage produces carries the s3_key
\* of the item the worker was dispatched for, image_data (and inferences,
\* for classification) exactly when success is true, and an error
\* description exactly when success is false.
ItemResultWellFormed == [] WellFormedState /\ [][WorkerFinishes]_vars

\* the classification stage has collected a success and a failure
ItemResultWellFormedWitness ==
    /\ poolStage = "classify"
    /\ \E i, j \in DOMAIN results : results[i].success /\ ~ results[j].success
    /\ finished # EmptyBag

\* execute_step_function has returned its result
ExecuteReturned == entry = "execute" /\ pc = "Done"
PolledTerminal == exe.polled \cap {"SUCCEEDED", "FAILED", "TIMED_OUT", "ABORTED"}

\* C16: execute_step_function returns status TIMEOUT only when no poll
\* answered a terminal status and the 60 seconds of the wait are over; a
\* poll that answers a terminal status S ends the call at once with status
\* S, and a terminal status is reported only when a poll answered it.
TimeoutDistinct ==
    entry = "execute" =>
        /\ PolledTerminal # {} => (pc = "Done" /\ PolledTerminal = {exe.result.status})
        /\ ExecuteReturned =>
             /\ exe.result.status = "TIMEOUT" =>
                  /\ PolledTerminal = {}
                  /\ exe.clock - exe.wait_start >= 60
             /\ exe.result.status \in {"SUCCEEDED", "FAILED", "TIMED_OUT", "ABORTED"} =>
                  exe.result.status \in exe.polled
             /\ exe.result.status \in {"SUCCEEDED", "FAILED", "TIMED_OUT", "ABORTED",
                                       "TIMEOUT", "ERROR"}

\* the wait has run out on an execution every poll saw running, and which
\* failed after the last poll
TimeoutDistinctWitness ==
    /\ ExecuteReturned
    /\ exe.result.status = "TIMEOUT"
    /\ exe.polled = {"RUNNING"}
    /\ exe.sfn.status = "FAILED"

\* C17: every result execute_step_function returns with status FAILED,
\* TIMED_OUT, ABORTED, TIMEOUT or ERROR has an 'error' or a 'cause' field.
NonSuccessHasCause ==
    (ExecuteReturned
       /\ exe.result.status \in {"FAILED", "TIMED_OUT", "ABORTED", "TIMEOUT", "ERROR"}) =>
        ("error" \in DOMAIN exe.result \/ "cause" \in DOMAIN exe.result)

\* the failed-execution events and what the handler did with them
NotifyRan == entry = "notify" /\ pc = "Done"
FailedExecutionEvent ==
    /\ "detail" \in DOMAIN event
    /\ "status" \in DOMAIN event.detail
    /\ event.detail.status \in {"FAILED", "TIMED_OUT", "ABORTED"}

\* C18: for a failed-execution event the StepFunctionErrorHandler never
\* raises: it returns statusCode 200 when the message was published and,
\* when sns.publish raised, statusCode 500 after logging the failure,
\* with nothing published.
PublishFailureSwallowed ==
    NotifyRan =>
        /\ snsOut.kind = "returned"
        /\ snsOut.response.statusCode \in {200, 500}
        /\ FailedExecutionEvent =>
             /\ snsOut.response.statusCode = 200 <=> Len(published) = 1
             /\ snsOut.response.statusCode = 500 <=>
                  (published = << >> /\ snsOut.log # << >>)
        /\ ~ FailedExecutionEvent =>
             (snsOut.response.statusCode = 200 /\ published = << >>)

\* sns.publish has raised for a FAILED execution and the handler returned
PublishFailureSwallowedWitness ==
    /\ NotifyRan
    /\ FailedExecutionEvent
    /\ event.detail.status = "FAILED"
    /\ snsOut.response.statusCode = 500
    /\ published = << >>

\* the status the handler reads from the event, 'Unknown' when it is missing
EventStatus ==
    IF "detail" \in DOMAIN event /\ "status" \in DOMAIN event.detail
    THEN event.detail.status ELSE "Unknown"

\* C22: the StepFunctionErrorHandler calls sns.publish exactly when the
\* event's status is FAILED, TIMED_OUT or ABORTED, and then once; a message
\* published is the one of that event; for every other status, a missing
\* one included, it returns statusCode 200 and publish is not called.
NotifiesOnlyFailures ==
    NotifyRan =>
        LET failed == EventStatus \in {"FAILED", "TIMED_OUT", "ABORTED"}
        IN  /\ snsOut.publish_calls = IF failed THEN 1 ELSE 0
            /\ Len(published) <= snsOut.publish_calls
            /\ \A i \in DOMAIN published : published[i].status = EventStatus
            /\ ~ failed => (snsOut.kind = "returned"
                            /\ snsOut.response.statusCode = 200
                            /\ published = << >>)

\* an ABORTED execution has been notified once
NotifiesOnlyFailuresWitness ==
    /\ NotifyRan
    /\ EventStatus = "ABORTED"
    /\ Len(published) = 1
    /\ snsOut.publish_calls = 1

\* the states an execution of the workflow ends in
WorkflowEnded == pc \in {"ExecutionSucceeded", "ExecutionFailed", "SerializationFailed"}
\* the classification stage is running or about to: the list it was handed
ClassificationGuarded ==
    (entry = "workflow" /\ pc \in {"ParallelClassification", "ClassifyPool"}) =>
        /\ serOut.kind = "returned"
        /\ serOut.response.body.successful_count > 0
        /\ event = serOut.response
        /\ event.body.serialized_images # << >>
\* the step out of the choice state, and the only step into the classification
ChoiceStep ==
    /\ (pc' = "ParallelClassification" /\ pc # "ParallelClassification") =>
          (pc = "CheckSerializationSuccess" /\ serOut.response.body.successful_count > 0)
    /\ (pc = "CheckSerializationSuccess" /\ pc' # pc) =>
          pc' = IF serOut.response.body.successful_count > 0
                THEN "ParallelClassification" ELSE "SerializationFailed"
    /\ (pc' = "SerializationFailed" /\ pc # pc') =>
          (pc = "CheckSerializationSuccess" /\ serOut.response.body.successful_count = 0)
\* the classification handler was refused an executor for an empty list
ClassifiedEmpty ==
    entry = "workflow" /\ clsOut.kind = "raised" /\ poolStage # "classify"

\* C23: in an execution of the state machine, ParallelClassification is
\* entered only from CheckSerializationSuccess with successful_count > 0,
\* and with a count of 0 the execution goes to SerializationFailed; the
\* classification is never invoked with an empty serialized_images list;
\* and every execution reaches a terminal state.
StepGraph ==
    /\ [] (ClassificationGuarded /\ ~ ClassifiedEmpty)
    /\ [][ChoiceStep]_vars
    /\ (entry = "workflow") ~> WorkflowEnded

\* an execution has ended in the fail state of the choice
StepGraphWitness ==
    /\ pc = "SerializationFailed"
    /\ Len(items) >= 2
    /\ clsOut = NotRun

\* the result and the calls made so far
ExecuteSafe ==
    entry = "execute" =>
        /\ ExecuteReturned =>
             /\ exe.result.status \in {"SUCCEEDED", "FAILED", "TIMED_OUT", "ABORTED",
                                       "TIMEOUT", "ERROR"}
             /\ exe.result.status = "ERROR" <=>
                  ("error" \in DOMAIN exe.result
                     /\ exe.result.error \in {"ExecutionAlreadyExists", "ThrottlingException"})
        /\ (pc \in {"while", "sleep"} \/ exe.polled # {}) =>
             (exe.execution_arn # << >> /\ exe.sfn.status # "NOT_STARTED")
        /\ exe.execution_arn = << >> => exe.polled = {}
\* a call that raises ends execute_step_function with status ERROR
CallRaises ==
    (entry = "execute" /\ pc' = "Done" /\ pc # "Done") =>
        /\ pc = "execute_step_function" => exe'.result.status = "ERROR"
        /\ (pc = "while" /\ exe'.polled = exe.polled
              /\ exe.clock - exe.wait_start < 60) => exe'.result.status = "ERROR"

\* C25: execute_step_function always returns, with status SUCCEEDED, FAILED,
\* TIMED_OUT, ABORTED, TIMEOUT or ERROR, and never raises; a start_execution
\* or describe_execution that raises gives ERROR; describe_execution is
\* called only after start_execution has answered.
ExecuteTerminates ==
    /\ [] ExecuteSafe
    /\ [][CallRaises]_vars
    /\ (entry = "execute") ~> ExecuteReturned

\* describe_execution has raised after a poll that saw the execution running
ExecuteTerminatesWitness ==
    /\ ExecuteReturned
    /\ exe.result.status = "ERROR"
    /\ exe.result.error = "ThrottlingException"
    /\ exe.polled = {"RUNNING"}

\* C28: the batch filter places every classification it receives in exactly
\* one of high_confidence_results, low_confidence_results and
\* processing_errors: the three counts add up to total_processed, the number
\* received, the lists of a response hold the received s3_keys once each,
\* and the items after one that does not parse are filtered all the same.
FilterPartition ==
    FilterRan =>
        LET s == fltOut.summary
            given == event.body.classifications
            errors == s.error_count - FailedClassified
        IN  /\ s.total_processed = Len(given)
            /\ s.high_confidence_count + s.low_confidence_count + errors = s.total_processed
            /\ errors = Len(SelectSeq(given, ParseFails))
            /\ s.high_confidence_count = Len(SelectSeq(given, AtOrAboveThreshold))
            /\ s.low_confidence_count = Len(SelectSeq(given, BelowThreshold))
            /\ fltOut.kind = "returned" =>
                 LET b == fltOut.response.body
                 IN  /\ SeqToBag(KeysOf(b.high_confidence_results
                                          \o b.low_confidence_results
                                          \o b.processing_errors))
                          = SeqToBag(KeysOf(given))
                     /\ Len(b.high_confidence_results) = s.high_confidence_count
                     /\ Len(b.low_confidence_results) = s.low_confidence_count
                     /\ Len(b.processing_errors) = errors

\* the first classification did not parse and the ones after it were
\* filtered into both other lists
FilterPartitionWitness ==
    /\ FilterRan
    /\ fltOut.kind = "returned"
    /\ Len(event.body.classifications) = 3
    /\ ParseFails(event.body.classifications[1])
    /\ AtOrAboveThreshold(event.body.classifications[2])
    /\ BelowThreshold(event.body.classifications[3])

\* C29: when the filter ends an execution of the workflow, every key of the
\* original request is in exactly one of high_confidence_results,
\* low_confidence_results, processing_errors and failed_classifications, the
\* counts add up to the number requested, and error_count includes the
\* items whose serialization failed.
EveryKeyAccounted ==
    (entry = "workflow" /\ FilterRan) =>
        LET requested == serOut.response.body
            s == fltOut.summary
        IN  /\ s.high_confidence_count + s.low_confidence_count + s.error_count
                 = requested.total_requested
            /\ s.error_count >= requested.failed_count
            /\ fltOut.kind = "returned" =>
                 LET b == fltOut.response.body
                 IN  SeqToBag(KeysOf(b.high_confidence_results
                                       \o b.low_confidence_results
                                       \o b.processing_errors
                                       \o b.failed_classifications))
                       = SeqToBag(KeysOf(requested.serialized_images
                                           \o requested.failed_images))

\* the multi-class filter has returned; what it answered and was given
MultiRan == entry = "multi_filter" /\ multiOut.kind = "returned"
MultiBody == json_loads_document(multiOut.response.body)
GivenBody == IF "body" \in DOMAIN event THEN json_loads_document(event.body) ELSE << >>
GivenTop == IF "top_prediction" \in DOMAIN GivenBody THEN GivenBody.top_prediction ELSE << >>
GivenClass == IF "class_name" \in DOMAIN GivenTop THEN GivenTop.class_name ELSE "unknown"
GivenConfidence == IF "confidence" \in DOMAIN GivenTop THEN GivenTop.confidence ELSE 0
Routable == {"bicycle", "motorcycle", "automobile", "pickup_truck", "truck"}

\* C24: generate_routing_decision answers REJECT exactly when meets_threshold
\* is false; when it is true, ASSIGN_ROUTE exactly for bicycle, motorcycle,
\* automobile, pickup_truck and truck, with the route type of the vehicle
\* type, and MANUAL_REVIEW for every other vehicle type.
RoutingDecisionTable ==
    (entry = "multi_filter" /\ multiOut.kind # "none") =>
        \A i \in DOMAIN multiOut.call :
            LET c == multiOut.call[i]
                d == c.result
            IN  /\ d.action \in {"REJECT", "ASSIGN_ROUTE", "MANUAL_REVIEW"}
                /\ d.action = "REJECT" <=> ~ c.meets_threshold
                /\ c.meets_threshold =>
                     /\ d.action = "ASSIGN_ROUTE" <=> c.vehicle_type \in Routable
                     /\ d.action = "MANUAL_REVIEW" <=> c.vehicle_type \notin Routable
                /\ d.action = "ASSIGN_ROUTE" =>
                     d.route_type =
                       CASE c.vehicle_type \in {"bicycle", "motorcycle"} -> "SHORT_DISTANCE"
                         [] c.vehicle_type \in {"automobile", "pickup_truck"} -> "MEDIUM_DISTANCE"
                         [] c.vehicle_type = "truck" -> "LONG_DISTANCE_BULK"

\* generate_routing_decision has sent a confident truck on the bulk route
RoutingDecisionTableWitness ==
    /\ entry = "multi_filter"
    /\ multiOut.kind = "returned"
    /\ multiOut.call # << >>
    /\ multiOut.call[1].vehicle_type = "truck"
    /\ multiOut.call[1].meets_threshold
    /\ multiOut.call[1].result.route_type = "LONG_DISTANCE_BULK"

\* the threshold of each class, in hundredths
ThresholdOf(class_name) ==
    CASE class_name \in {"bicycle", "motorcycle"} -> 85
      [] class_name \in {"automobile", "pickup_truck", "lawn_mower"} -> 90
      [] class_name \in {"truck", "bus", "tractor"} -> 95
      [] class_name = "streetcar" -> 98
      [] class_name = "tank" -> 99
      [] OTHER -> 95

AssignedCanDeliver ==
    (MultiRan /\ MultiBody.routing_decision.action = "ASSIGN_ROUTE") =>
        /\ MultiBody.business_rules.can_deliver
        /\ ~ MultiBody.business_rules.requires_manual_review

\* C21: run_load_test(num_executions = n, max_workers = w), given a test
\* image, never has more than w calls of execute_step_function running at
\* the same time, and when it has returned every one of the n submitted
\* executions has finished and results holds exactly n results whose
\* execution_number values are 1..n, each exactly once.
LoadRunning == entry = "load" /\ load.pc \notin {"run_load_test", "raised"}
LoadReturned == entry = "load" /\ load.pc = "returned"
ExecutionNumbers(rs) == { rs[j].execution_number : j \in DOMAIN rs }
LoadTestComplete ==
    (entry = "load" /\ event.test_images > 0) =>
        /\ Cardinality(load.running) <= event.max_workers
        /\ LoadReturned =>
              /\ load.running = {}
              /\ load.pending = << >>
              /\ { f.execution_number : f \in load.done } = 1 .. event.num_executions
              /\ Len(load.results) = event.num_executions
              /\ ExecutionNumbers(load.results) = 1 .. event.num_executions
              /\ \A k \in 1 .. event.num_executions :
                    Cardinality({ j \in DOMAIN load.results :
                                    load.results[j].execution_number = k }) = 1

\* three executions on two workers have returned, the results in another
\* order than the submissions
LoadTestCompleteWitness ==
    /\ LoadReturned
    /\ event.test_images > 0
    /\ event.num_executions = 3
    /\ event.max_workers = 2
    /\ Len(load.results) = 3
    /\ load.results[1].execution_number = 2
    /\ load.results[3].execution_number = 1

\* C30: analyze_results counts every result in exactly one of succeeded,
\* failed and errors: the three counts add up to the total.
Analyzed == entry = "analyze" /\ analysisOut.kind = "returned"
BucketsAddUp ==
    (Analyzed /\ "total" \in DOMAIN analysisOut) =>
        analysisOut.succeeded + analysisOut.failed + analysisOut.errors
            = analysisOut.total

====
